---------------------------- MODULE Spec2Model ----------------------------
(***************************************************************************)
(* A model of eyelinkparser: the tokenizer (EyeLinkParser.split), the      *)
(* trial/phase state machine (parse_file, parse_trial, parse_variable,     *)
(* parse_phase, to_sample, to_saccade, to_fixation), its hooks, the corpus  *)
(* driver (EyeLinkParser.__init__) and the event decoder of _events.py     *)
(* (Sample, Blink, Fixation, Saccade, event and its four wrappers).        *)
(*                                                                         *)
(* A raw line is a sequence of one-character strings.  A token is a record *)
(* [t, n, e, s]: t is the Python type ("int", "float", "str"), n / 10^e    *)
(* the value of a number and s the characters of a text.  None, the        *)
(* not-a-number value and an attribute that was never assigned are tokens  *)
(* of type "none", "nan" and "unset".                                      *)
(***************************************************************************)
EXTENDS Integers, Sequences, FiniteSets, TLC

VARIABLES
    raw,        \* tokenizer run: the raw line handed to split
    toks,       \* tokenizer run: what split returned, or the exception
    self,       \* the EyeLinkParser instance: its attributes and position
    ref,        \* a freshly constructed instance parsing the same file
    dm,         \* self.dm, the corpus table (a sequence of rows)
    listing,    \* what os.listdir(folder) returned
    idx,        \* number of directory entries __init__ is done with
    nread,      \* lines read so far over the whole corpus run
    obs,        \* history of the run (what the claims speak about)
    alphabet,   \* the lines the files of the run are made of
    ev          \* decoder run: a token list, its context and the record

vars ==
    <<raw, toks, self, ref, dm, listing, idx, nread, obs, alphabet, ev>>

-----------------------------------------------------------------------------
(* Bounds of the model *)

\* longest raw line of the tokenizer run
MaxRawLen == 4
\* lines read over one corpus run
MaxLines == 6
\* directory entries
MaxFiles == 2

-----------------------------------------------------------------------------
(* Tokens *)

IntTok(n) == [t |-> "int", n |-> n, e |-> 0, s |-> <<>>]
FloatTok(n, e) == [t |-> "float", n |-> n, e |-> e, s |-> <<>>]
StrTok(s) == [t |-> "str", n |-> 0, e |-> 0, s |-> s]
None == [t |-> "none", n |-> 0, e |-> 0, s |-> <<>>]
NaN == [t |-> "nan", n |-> 0, e |-> 0, s |-> <<>>]
Unset == [t |-> "unset", n |-> 0, e |-> 0, s |-> <<>>]

IsNumber(a) == a.t \in {"int", "float"}
\* isinstance(a, basestring)
IsString(a) == a.t = "str"

RECURSIVE Pow10(_)
Pow10(k) == IF k = 0 THEN 1 ELSE 10 * Pow10(k - 1)

\* Python's a == b on tokens: numbers compare by value (0 == 0.0), texts by
\* their characters, None only equals None, a number never equals a text.
PyEq(a, b) ==
    IF IsNumber(a) /\ IsNumber(b) THEN a.n * Pow10(b.e) = b.n * Pow10(a.e)
    ELSE IF IsString(a) /\ IsString(b) THEN a.s = b.s
    ELSE a.t = b.t /\ a.t = "none"

-----------------------------------------------------------------------------
(* shlex.split(line), as called by split: POSIX mode, whitespace_split,    *)
(* no comment characters.  The lexer states are those of                   *)
(* shlex.read_token: " " between words, "a" inside a word, a quote         *)
(* character inside a quoted stretch, "\\" after an escape character.      *)

Whitespace == {" ", "\t", "\r", "\n"}
Quotes == {"'", "\""}
Escape == {"\\"}
EscapedQuotes == {"\""}

\* the word is emitted when it is non-empty or was quoted (posix)
Emit(acc, token, quoted) ==
    IF token # <<>> \/ quoted THEN Append(acc, token) ELSE acc

RECURSIVE Lex(_, _, _, _, _, _, _)
Lex(line, i, state, escapedstate, token, quoted, acc) ==
    IF i > Len(line)
    THEN IF state \in Quotes
         THEN [exc |-> "ValueError", words |-> <<>>]   \* No closing quotation
         ELSE IF state \in Escape
         THEN [exc |-> "ValueError", words |-> <<>>]   \* No escaped character
         ELSE [exc |-> "", words |-> Emit(acc, token, quoted)]
    ELSE LET c == line[i] IN
         IF state = " " \/ state = "a"
         THEN IF c \in Whitespace
              THEN Lex(line, i + 1, " ", escapedstate, <<>>, FALSE,
                       Emit(acc, token, quoted))
              ELSE IF c \in Escape
              THEN Lex(line, i + 1, c, "a", token, quoted, acc)
              ELSE IF c \in Quotes
              THEN Lex(line, i + 1, c, escapedstate, token, quoted, acc)
              ELSE Lex(line, i + 1, "a", escapedstate, Append(token, c),
                       quoted, acc)
         ELSE IF state \in Quotes
         THEN IF c = state
              THEN Lex(line, i + 1, "a", escapedstate, token, TRUE, acc)
              ELSE IF c \in Escape /\ state \in EscapedQuotes
              THEN Lex(line, i + 1, c, state, token, TRUE, acc)
              ELSE Lex(line, i + 1, state, escapedstate, Append(token, c),
                       TRUE, acc)
         ELSE \* state \in Escape
              LET kept == IF escapedstate \in Quotes /\ c # state
                             /\ c # escapedstate
                          THEN Append(token, state) ELSE token
              IN  Lex(line, i + 1, escapedstate, escapedstate,
                      Append(kept, c), quoted, acc)

shlex_split(line) == Lex(line, 1, " ", " ", <<>>, FALSE, <<>>)

-----------------------------------------------------------------------------
(* int(s) and float(s) on one word *)

Digits == {"0", "1", "2", "3", "4", "5", "6", "7", "8", "9"}

DigitVal(c) ==
    CASE c = "0" -> 0 [] c = "1" -> 1 [] c = "2" -> 2 [] c = "3" -> 3
      [] c = "4" -> 4 [] c = "5" -> 5 [] c = "6" -> 6 [] c = "7" -> 7
      [] c = "8" -> 8 [] c = "9" -> 9

RECURSIVE LStrip(_)
LStrip(w) == IF w # <<>> /\ Head(w) \in Whitespace THEN LStrip(Tail(w)) ELSE w

RECURSIVE RStrip(_)
RStrip(w) ==
    IF w # <<>> /\ w[Len(w)] \in Whitespace
    THEN RStrip(SubSeq(w, 1, Len(w) - 1)) ELSE w

\* int() and float() ignore surrounding whitespace
Strip(w) == RStrip(LStrip(w))

HasSign(w) == w # <<>> /\ Head(w) \in {"-", "+"}
Unsigned(w) == IF HasSign(w) THEN Tail(w) ELSE w
Sign(w) == IF w # <<>> /\ Head(w) = "-" THEN -1 ELSE 1

RECURSIVE DigitsVal(_)
DigitsVal(w) ==
    IF w = <<>> THEN 0
    ELSE 10 * DigitsVal(SubSeq(w, 1, Len(w) - 1)) + DigitVal(w[Len(w)])

AllDigits(w) == \A k \in 1..Len(w) : w[k] \in Digits

\* int(s) succeeds: an optional sign and one or more decimal digits
IsIntWord(w) ==
    LET u == Unsigned(Strip(w)) IN u # <<>> /\ AllDigits(u)

IntOf(w) == LET s == Strip(w) IN IntTok(Sign(s) * DigitsVal(Unsigned(s)))

DotAt(u) == CHOOSE k \in 1..Len(u) : u[k] = "."

\* float(s) succeeds: an optional sign, digits with at most one point, at
\* least one digit (the exponent, inf and nan spellings of float() use
\* letters the lines of this model do not put in such a position)
IsFloatWord(w) ==
    LET u == Unsigned(Strip(w)) IN
        /\ \E k \in 1..Len(u) : u[k] \in Digits
        /\ \A k \in 1..Len(u) : u[k] \in Digits \cup {"."}
        /\ Cardinality({k \in 1..Len(u) : u[k] = "."}) <= 1

\* one float has one representation: 2141.0 and 2141.00 are the same value
RECURSIVE Norm(_, _)
Norm(n, e) ==
    IF e > 0 /\ n % 10 = 0 THEN Norm(n \div 10, e - 1) ELSE FloatTok(n, e)

FloatOf(w) ==
    LET s == Strip(w)
        u == Unsigned(s)
    IN  IF \E k \in 1..Len(u) : u[k] = "."
        THEN LET d == DotAt(u)
                 frac == SubSeq(u, d + 1, Len(u))
             IN  Norm(Sign(s) * DigitsVal(SubSeq(u, 1, d - 1) \o frac),
                      Len(frac))
        ELSE FloatTok(Sign(s) * DigitsVal(u), 0)

\* the try / except chain of split: int, else float, else the text itself
Coerce(w) ==
    IF IsIntWord(w) THEN IntOf(w)
    ELSE IF IsFloatWord(w) THEN FloatOf(w)
    ELSE StrTok(w)

\* EyeLinkParser.split: the tokens of the line; shlex.split's ValueError is
\* not caught and leaves split
split(line) ==
    LET r == shlex_split(line) IN
        IF r.exc # "" THEN [exc |-> r.exc, l |-> <<>>]
        ELSE [exc |-> "", l |-> [k \in 1..Len(r.words) |-> Coerce(r.words[k])]]

-----------------------------------------------------------------------------
(* The literal texts the parser compares with or builds column names from *)

MSG == <<"M", "S", "G">>
START_TRIAL == <<"s", "t", "a", "r", "t", "_", "t", "r", "i", "a", "l">>
END_TRIAL == <<"e", "n", "d", "_", "t", "r", "i", "a", "l">>
VAR == <<"v", "a", "r">>
START_PHASE == <<"s", "t", "a", "r", "t", "_", "p", "h", "a", "s", "e">>
END_PHASE == <<"e", "n", "d", "_", "p", "h", "a", "s", "e">>
COL_PATH == <<"p", "a", "t", "h">>
COL_TRIALID == <<"t", "r", "i", "a", "l", "i", "d">>
PTRACE_ == <<"p", "t", "r", "a", "c", "e", "_">>
XTRACE_ == <<"x", "t", "r", "a", "c", "e", "_">>
YTRACE_ == <<"y", "t", "r", "a", "c", "e", "_">>
COND == <<"c", "o", "n", "d">>
COND_A == <<"A">>
PROBE == <<"p", "r", "o", "b", "e">>
FOLDER == <<"d", "a", "t", "a">>
EXT == <<".", "a", "s", "c">>
SEP == <<"/">>

-----------------------------------------------------------------------------
(* The lines a file of the model is made of, as read from the file (each   *)
(* ends with its newline)                                                  *)

\* MSG 100 start_trial 1
LineStartTrial1 ==
    <<"M", "S", "G", " ", "1", "0", "0", " ", "s", "t", "a", "r", "t", "_",
      "t", "r", "i", "a", "l", " ", "1", "\n">>

\* MSG 200 start_trial 2
LineStartTrial2 ==
    <<"M", "S", "G", " ", "2", "0", "0", " ", "s", "t", "a", "r", "t", "_",
      "t", "r", "i", "a", "l", " ", "2", "\n">>

\* MSG 101 var cond A
LineVar ==
    <<"M", "S", "G", " ", "1", "0", "1", " ", "v", "a", "r", " ", "c", "o",
      "n", "d", " ", "A", "\n">>

\* MSG 102 start_phase probe
LineStartPhase ==
    <<"M", "S", "G", " ", "1", "0", "2", " ", "s", "t", "a", "r", "t", "_",
      "p", "h", "a", "s", "e", " ", "p", "r", "o", "b", "e", "\n">>

\* 4815155 168.2 406.5 2141.0   (four tokens)
LineSample4 ==
    <<"4", "8", "1", "5", "1", "5", "5", " ", "1", "6", "8", ".", "2", " ",
      "4", "0", "6", ".", "5", " ", "2", "1", "4", "1", ".", "0", "\n">>

\* 4815155 168.2 406.5 2141.0 ...   (the documented sample line)
LineSample5 ==
    <<"4", "8", "1", "5", "1", "5", "5", " ", "1", "6", "8", ".", "2", " ",
      "4", "0", "6", ".", "5", " ", "2", "1", "4", "1", ".", "0", " ", ".",
      ".", ".", "\n">>

\* 4815156 170.4 400.1 2000.0 ...
LineSampleB ==
    <<"4", "8", "1", "5", "1", "5", "6", " ", "1", "7", "0", ".", "4", " ",
      "4", "0", "0", ".", "1", " ", "2", "0", "0", "0", ".", "0", " ", ".",
      ".", ".", "\n">>

\* 661781 . . 0.0 ...   (a sample during a blink)
LineBlink ==
    <<"6", "6", "1", "7", "8", "1", " ", ".", " ", ".", " ", "0", ".", "0",
      " ", ".", ".", ".", "\n">>

\* MSG 103 end_phase probe
LineEndPhase ==
    <<"M", "S", "G", " ", "1", "0", "3", " ", "e", "n", "d", "_", "p", "h",
      "a", "s", "e", " ", "p", "r", "o", "b", "e", "\n">>

\* MSG 103 end_phase other
LineEndPhaseOther ==
    <<"M", "S", "G", " ", "1", "0", "3", " ", "e", "n", "d", "_", "p", "h",
      "a", "s", "e", " ", "o", "t", "h", "e", "r", "\n">>

\* MSG 104 end_trial
LineEndTrial ==
    <<"M", "S", "G", " ", "1", "0", "4", " ", "e", "n", "d", "_", "t", "r",
      "i", "a", "l", "\n">>

\* MSG 105 var note "x   (a quote that is never closed)
LineBadQuote ==
    <<"M", "S", "G", " ", "1", "0", "5", " ", "v", "a", "r", " ", "n", "o",
      "t", "e", " ", "\"", "x", "\n">>

\* MSG 101 var path x
LineVarPath ==
    <<"M", "S", "G", " ", "1", "0", "1", " ", "v", "a", "r", " ", "p", "a",
      "t", "h", " ", "x", "\n">>

\* MSG 101 var trialid 9
LineVarTrialid ==
    <<"M", "S", "G", " ", "1", "0", "1", " ", "v", "a", "r", " ", "t", "r",
      "i", "a", "l", "i", "d", " ", "9", "\n">>

Vocabulary ==
    {LineStartTrial1,
     LineStartTrial2,
     LineVar,
     LineStartPhase,
     LineSample4,
     LineSample5,
     LineSampleB,
     LineBlink,
     LineEndPhase,
     LineEndPhaseOther,
     LineEndTrial,
     LineBadQuote}

\* the lines of files whose variables are named like the columns parse_trial
\* sets
VarVocabulary ==
    {LineStartTrial1, LineVarTrialid, LineVarPath, LineEndTrial}

\* a run reads files made of the lines of one of these sets
Alphabets == {Vocabulary, VarVocabulary}

AllLines == UNION Alphabets

\* split on each line of the vocabulary, computed once
Tokens == [line \in AllLines |-> split(line)]

-----------------------------------------------------------------------------
(* Tables.  A DataMatrix is modelled by what the parser asks of it: a      *)
(* sequence of rows, a row holding one cell per column it has a value for, *)
(* a cell being a scalar or a series; dm <<= other appends other's rows.   *)
(* origin is history: the directory entry and the line number of the       *)
(* start_trial marker for which parse_trial created the row.               *)

Scalar(v) == [kind |-> "scalar", v |-> v, series |-> <<>>]
Series(trace) == [kind |-> "series", v |-> None, series |-> trace]

EmptyCols == [c \in {} |-> Scalar(None)]

\* DataMatrix(length=1): one row, no column yet
NewRow(origin) == [cols |-> EmptyCols, origin |-> origin]

\* row[name] = cell
SetCol(row, name, cell) ==
    [row EXCEPT !.cols = [c \in (DOMAIN row.cols) \cup {name} |->
                            IF c = name THEN cell ELSE row.cols[c]]]

\* key in row: the columns are named by texts, no other key is a column
ColIn(key, row) == IsString(key) /\ key.s \in DOMAIN row.cols

\* table <<= rows
Concat(table, rows) == table \o rows

-----------------------------------------------------------------------------
(* The parser instance.  pc is where the instance stands: "idle" outside   *)
(* parse_file, "file" in the loop of parse_file, "trial" in the loop of    *)
(* parse_trial, "raised" once an exception has left parse_file.            *)

\* the instance as object.__new__ leaves it: __init__ assigns only self.dm,
\* every other attribute exists from its first assignment on.  The traces
\* are assigned at start_phase (lines 116-118) before any read of them.
Fresh ==
    [pc |-> "idle", exc |-> "", path |-> Unset, entry |-> 0, lineno |-> 0,
     ntrial |-> 0, current_phase |-> Unset, trialid |-> Unset,
     ptrace |-> <<>>, xtrace |-> <<>>, ytrace |-> <<>>,
     trialdm |-> NewRow(<<0, 0>>), filedm |-> <<>>]

Raise(p, e) == [p EXCEPT !.pc = "raised", !.exc = e]

\* the condition of is_start_trial (line 145)
StartTrialMarker(l) ==
    Len(l) = 4 /\ PyEq(l[1], StrTok(MSG)) /\ PyEq(l[3], StrTok(START_TRIAL))

\* is_start_trial that sets current_phase only when it was never assigned
is_start_trial_lazy(p, l) ==
    IF StartTrialMarker(l)
    THEN [p EXCEPT !.trialid = l[4],
                   !.current_phase = IF p.current_phase = Unset THEN None
                                     ELSE p.current_phase]
    ELSE p

\* the assignments of is_start_trial when it returns True (lines 146-147)
is_start_trial(p, l) ==
    IF StartTrialMarker(l)
    THEN [p EXCEPT !.trialid = l[4], !.current_phase = None]
    ELSE p

\* the condition of is_end_trial (line 154)
EndTrialMarker(l) ==
    Len(l) = 3 /\ PyEq(l[1], StrTok(MSG)) /\ PyEq(l[3], StrTok(END_TRIAL))

\* the assignment of is_end_trial when it returns True (line 155)
is_end_trial(p, l) ==
    IF EndTrialMarker(l) THEN [p EXCEPT !.trialid = None] ELSE p

VarMarker(l) ==
    Len(l) = 5 /\ PyEq(l[1], StrTok(MSG)) /\ PyEq(l[3], StrTok(VAR))

\* parse_variable: self.trialdm[l[3]] = l[4].  The variable names of the
\* lines of this model are texts (a column name).
parse_variable(p, l) ==
    IF VarMarker(l)
    THEN CASE IsString(l[4]) ->
              [p EXCEPT !.trialdm = SetCol(p.trialdm, l[4].s, Scalar(l[5]))]
    ELSE p

NoSample ==
    [ok |-> FALSE, time |-> None, x |-> None, y |-> None, pupil_size |-> None]

\* to_sample with a token count of 4 let through as well
to_sample_4(l) ==
    IF Len(l) \notin {4, 5, 9} \/ IsString(l[1]) THEN NoSample
    ELSE IF IsString(l[2]) THEN NoSample
    ELSE IF PyEq(l[4], IntTok(0)) \/ IsString(l[4]) THEN NoSample
    ELSE [ok |-> TRUE, time |-> l[1], x |-> l[2], y |-> l[3],
          pupil_size |-> l[4]]

\* to_sample: None unless the line has 5 or 9 tokens, a numeric time and x,
\* and a pupil size that is a number other than zero
to_sample(l) ==
    IF Len(l) \notin {5, 9} \/ IsString(l[1]) THEN NoSample
    ELSE IF IsString(l[2]) THEN NoSample
    ELSE IF PyEq(l[4], IntTok(0)) \/ IsString(l[4]) THEN NoSample
    ELSE [ok |-> TRUE, time |-> l[1], x |-> l[2], y |-> l[3],
          pupil_size |-> l[4]]

StartPhaseMarker(l) ==
    Len(l) = 4 /\ PyEq(l[1], StrTok(MSG)) /\ PyEq(l[3], StrTok(START_PHASE))

EndPhaseMarker(l) ==
    Len(l) = 4 /\ PyEq(l[1], StrTok(MSG)) /\ PyEq(l[3], StrTok(END_PHASE))

\* start_phase without the assertion that no phase is open
start_phase_unchecked(p, l) ==
    IF p.current_phase = Unset THEN Raise(p, "AttributeError")
    ELSE [p EXCEPT !.current_phase = l[4], !.ptrace = <<>>,
                   !.xtrace = <<>>, !.ytrace = <<>>]

\* lines 113-118: the two assertions, then the phase is opened (assert
\* statements are executed, as the interpreter does unless run with -O)
start_phase(p, l) ==
    IF p.current_phase = Unset THEN Raise(p, "AttributeError")
    ELSE IF p.current_phase # None THEN Raise(p, "AssertionError")
    ELSE IF ColIn(p.current_phase, p.trialdm) THEN Raise(p, "AssertionError")
    ELSE [p EXCEPT !.current_phase = l[4], !.ptrace = <<>>,
                   !.xtrace = <<>>, !.ytrace = <<>>]

\* lines 123-130: prefix + self.current_phase is a TypeError unless the
\* name is a text; the three columns are set in the order p, x, y
flush(p) ==
    IF ~IsString(p.current_phase) THEN Raise(p, "TypeError")
    ELSE LET name == p.current_phase.s
             r1 == SetCol(p.trialdm, PTRACE_ \o name, Series(p.ptrace))
             r2 == SetCol(r1, XTRACE_ \o name, Series(p.xtrace))
             r3 == SetCol(r2, YTRACE_ \o name, Series(p.ytrace))
         IN  [p EXCEPT !.trialdm = r3]

\* end_phase without the assertion on the name
end_phase_unchecked(p, l) ==
    IF p.current_phase = Unset THEN Raise(p, "AttributeError")
    ELSE LET q == flush(p) IN
         IF q.pc = "raised" THEN q ELSE [q EXCEPT !.current_phase = None]

\* lines 122-131: the assertion, the flush, the phase is closed
end_phase(p, l) ==
    IF p.current_phase = Unset THEN Raise(p, "AttributeError")
    ELSE IF ~PyEq(p.current_phase, l[4]) THEN Raise(p, "AssertionError")
    ELSE LET q == flush(p) IN
         IF q.pc = "raised" THEN q ELSE [q EXCEPT !.current_phase = None]

\* append_sample with x inserted at the front of its trace
append_sample_front(p, s) ==
    [p EXCEPT !.ptrace = Append(p.ptrace, s.pupil_size),
              !.xtrace = <<s.x>> \o p.xtrace,
              !.ytrace = Append(p.ytrace, s.y)]

\* lines 138-140
append_sample(p, s) ==
    [p EXCEPT !.ptrace = Append(p.ptrace, s.pupil_size),
              !.xtrace = Append(p.xtrace, s.x),
              !.ytrace = Append(p.ytrace, s.y)]

parse_phase(p, l) ==
    IF StartPhaseMarker(l) THEN start_phase(p, l)
    ELSE IF EndPhaseMarker(l) THEN end_phase(p, l)
    ELSE IF p.current_phase = Unset THEN Raise(p, "AttributeError")
    ELSE IF p.current_phase = None THEN p
    ELSE LET s == to_sample(l) IN
         IF ~s.ok THEN p ELSE append_sample(p, s)

\* parse_file up to its loop (lines 70-75); the column `source` is set on
\* the file table while it has no row, so that no row holds a value for it
open_file(p, path, entry) ==
    [p EXCEPT !.pc = "file", !.exc = "", !.filedm = <<>>, !.path = path,
              !.entry = entry, !.ntrial = 0, !.lineno = 0]

\* parse_trial up to its loop (lines 89-92)
open_trial(p) ==
    LET r0 == NewRow(<<p.entry, p.lineno>>)
        r1 == SetCol(r0, COL_PATH, Scalar(p.path))
        r2 == SetCol(r1, COL_TRIALID, Scalar(p.trialid))
    IN  [p EXCEPT !.trialdm = r2, !.pc = "trial"]

\* close_trial that flushes the traces of a phase left open
close_trial_flushing(p) ==
    LET q == IF p.current_phase \notin {None, Unset} THEN flush(p) ELSE p
    IN  [q EXCEPT !.filedm = Concat(q.filedm, <<q.trialdm>>), !.pc = "file"]

\* close_trial with the row put in front of the file table
close_trial_front(p) ==
    [p EXCEPT !.filedm = Concat(<<p.trialdm>>, p.filedm), !.pc = "file"]

\* parse_trial after its loop, and the statement of parse_file that called
\* it (lines 100-101, 82): self.filedm <<= the trial's row
close_trial(p) ==
    [p EXCEPT !.filedm = Concat(p.filedm, <<p.trialdm>>), !.pc = "file"]

\* one turn of the loop of parse_file (lines 77-82)
file_line(p, line) ==
    LET q == [p EXCEPT !.lineno = p.lineno + 1]
        r == Tokens[line]
    IN  IF r.exc # "" THEN Raise(q, r.exc)
        ELSE IF StartTrialMarker(r.l)
        THEN LET q1 == is_start_trial(q, r.l) IN
             open_trial([q1 EXCEPT !.ntrial = q1.ntrial + 1])
        ELSE q

\* trial_line that tests the line for start_trial as parse_file does
trial_line_restart(p, line) ==
    LET q == [p EXCEPT !.lineno = p.lineno + 1]
        r == Tokens[line]
    IN  IF r.exc # "" THEN Raise(q, r.exc)
        ELSE IF EndTrialMarker(r.l) THEN close_trial(is_end_trial(q, r.l))
        ELSE LET q0 == is_start_trial(q, r.l)
                 q1 == parse_variable(q0, r.l)
             IN  parse_phase(q1, r.l)

\* one turn of the loop of parse_trial (lines 93-99)
trial_line(p, line) ==
    LET q == [p EXCEPT !.lineno = p.lineno + 1]
        r == Tokens[line]
    IN  IF r.exc # "" THEN Raise(q, r.exc)
        ELSE IF EndTrialMarker(r.l) THEN close_trial(is_end_trial(q, r.l))
        ELSE LET q1 == parse_variable(q, r.l) IN parse_phase(q1, r.l)

\* the end of the file: the loop of parse_trial ends as a break does, then
\* the loop of parse_file; parse_file returns self.filedm (lines 83-85)
end_of_file(p) ==
    LET q == IF p.pc = "trial" THEN close_trial(p) ELSE p
    IN  [q EXCEPT !.pc = "idle"]

\* an instance reading one line, wherever it stands
Feed(p, line) ==
    IF p.pc = "file" THEN file_line(p, line)
    ELSE IF p.pc = "trial" THEN trial_line(p, line)
    ELSE p

FeedEOF(p) == IF p.pc \in {"file", "trial"} THEN end_of_file(p) ELSE p

-----------------------------------------------------------------------------
(* The corpus: what os.listdir returns, in the order it returns it *)

NameA == <<"a", ".", "a", "s", "c">>
NameB == <<"b", ".", "a", "s", "c">>
NameT == <<"n", ".", "t", "x", "t">>
Names == {NameA, NameB, NameT}

Listings ==
    {f \in UNION {[1..n -> Names] : n \in 0..MaxFiles} :
        \A i, j \in DOMAIN f : i # j => f[i] # f[j]}

\* fname.endswith(ext)
EndsWith(name, suffix) ==
    /\ Len(name) >= Len(suffix)
    /\ SubSeq(name, Len(name) - Len(suffix) + 1, Len(name)) = suffix

\* os.path.join(folder, fname)
PathOf(name) == StrTok(FOLDER \o SEP \o name)

-----------------------------------------------------------------------------
(* What a run that has not been made yet holds *)

NoTokens == [done |-> FALSE, exc |-> "", l |-> <<>>]
NoRecord ==
    [ok |-> FALSE, exc |-> "", warned |-> FALSE, t |-> Unset, lx |-> Unset,
     ly |-> Unset,
     lpupil_size |-> Unset, rx |-> Unset, ry |-> Unset,
     rpupil_size |-> Unset]
NoEvent ==
    [l |-> <<>>, eyes |-> "", fast |-> FALSE, done |-> FALSE,
     rec |-> NoRecord]

-----------------------------------------------------------------------------
(* _events.py: the decoder of sample lines *)

\* the values of eyes_recorded: the three Sample.__init__ knows, and any other
EyeModes == {"both", "right", "left", "unknown"}

DOT == <<".">>
DOTS == <<".", ".", ".">>

\* fastnumbers.isreal: a number, or a text that reads as one
IsReal(a) ==
    IsNumber(a) \/ (IsString(a) /\ (IsIntWord(a.s) \/ IsFloatWord(a.s)))

\* Event.assert_numeric: TRUE when it returns, FALSE when it raises
\* TypeError; fast tells whether the import of fastnumbers succeeded
assert_numeric(l, indices, fast) ==
    IF fast THEN \A i \in indices : IsReal(l[i + 1])
    ELSE \A i \in indices : IsNumber(l[i + 1]) /\ l[i + 1].n > 0

\* Sample.match
SampleMatch(l) == Len(l) \in {5, 6, 8, 9} /\ ~IsString(l[1])

\* np.nan if the token is '.', else the token (lines 110-113 and alike)
Coord(a) == IF PyEq(a, StrTok(DOT)) THEN NaN ELSE a

\* Pupil that only knows the placeholder
PupilDotOnly(a) == IF PyEq(a, StrTok(DOT)) THEN NaN ELSE a

\* np.nan if the token is in (0, '.'), else the token (lines 118-121 and
\* alike)
Pupil(a) ==
    IF PyEq(a, IntTok(0)) \/ PyEq(a, StrTok(DOT)) THEN NaN ELSE a

\* Sample.__init__: the attributes of the record, or the exception.  With
\* both eyes recorded l[1]..l[6] are read, with one eye l[1]..l[3]; any
\* other eyes_recorded leaves the per-eye attributes unassigned.
Sample_init(l, eyes_recorded, fast) ==
    IF ~assert_numeric(l, {0}, fast)
    THEN [NoRecord EXCEPT !.exc = "TypeError"]
    ELSE IF eyes_recorded = "both"
    THEN IF Len(l) < 7
         THEN [NoRecord EXCEPT !.exc = "IndexError"]
         ELSE [ok |-> TRUE, exc |-> "", warned |-> FALSE, t |-> l[1],
               lx |-> Coord(l[2]), ly |-> Coord(l[3]),
               lpupil_size |-> Pupil(l[4]),
               rx |-> Coord(l[5]), ry |-> Coord(l[6]),
               rpupil_size |-> Pupil(l[7])]
    ELSE IF eyes_recorded = "right"
    THEN [ok |-> TRUE, exc |-> "", warned |-> FALSE, t |-> l[1],
          rx |-> Coord(l[2]), ry |-> Coord(l[3]),
          rpupil_size |-> Pupil(l[4]),
          lx |-> NaN, ly |-> NaN, lpupil_size |-> NaN]
    ELSE IF eyes_recorded = "left"
    THEN [ok |-> TRUE, exc |-> "", warned |-> FALSE, t |-> l[1],
          lx |-> Coord(l[2]), ly |-> Coord(l[3]),
          lpupil_size |-> Pupil(l[4]),
          rx |-> NaN, ry |-> NaN, rpupil_size |-> NaN]
    ELSE [NoRecord EXCEPT !.ok = TRUE, !.t = l[1]]

\* event(l, Sample, eyes_recorded) as sample calls it: None unless the line
\* matches; a TypeError is passed over, any other exception is warned
\* about, and both leave None
sample(l, eyes_recorded, fast) ==
    IF ~SampleMatch(l) THEN NoRecord
    ELSE LET r == Sample_init(l, eyes_recorded, fast) IN
         IF r.exc = "" THEN r
         ELSE [NoRecord EXCEPT !.warned = (r.exc # "TypeError")]

-----------------------------------------------------------------------------
(* History.  last names what the line just read was, for the instance that *)
(* read it; prePhase is the phase that was open before it; accepted holds  *)
(* the samples to_sample accepted since the phase was opened; opened the   *)
(* origins of the trials opened so far; closed the number of end_trial     *)
(* markers that closed a trial of the current file; scen4 and scen5 follow *)
(* two six-line files line by line (-1: the file is not that file);        *)
(* openid is the identifier of the start_trial marker that opened the      *)
(* trial; flushed holds the names of the phases end_phase closed in the    *)
(* trial; reused tells that the start_phase marker just read names one of  *)
(* them; decoded holds                                                     *)
(* the contexts in which sample() decodes the line just read in an open    *)
(* phase; hooks is where the calls of the hooks made so far stand.         *)

PhaseOpen(p) == p.current_phase \notin {None, Unset}

Kind(p, line) ==
    LET r == Tokens[line] IN
    IF r.exc # "" THEN "bad_line"
    ELSE IF p.pc = "file"
    THEN IF StartTrialMarker(r.l) THEN "start_trial" ELSE "outside"
    ELSE IF EndTrialMarker(r.l)
    THEN IF PhaseOpen(p) THEN "end_trial_in_phase" ELSE "end_trial"
    ELSE IF StartPhaseMarker(r.l)
    THEN IF PhaseOpen(p) THEN "nested_start_phase" ELSE "start_phase"
    ELSE IF EndPhaseMarker(r.l)
    THEN IF PyEq(p.current_phase, r.l[4]) THEN "end_phase"
         ELSE "bad_end_phase"
    ELSE IF VarMarker(r.l) THEN "var"
    ELSE IF StartTrialMarker(r.l) THEN "start_trial_in_trial"
    ELSE IF PhaseOpen(p) /\ to_sample(r.l).ok THEN "sample"
    ELSE "ignored"

\* the file of the scenario as the specification words it, and the same
\* file with the sample line as the source documents it
Scenario4 ==
    <<LineStartTrial1, LineVar, LineStartPhase, LineSample4, LineEndPhase,
      LineEndTrial>>
Scenario5 ==
    <<LineStartTrial1, LineVar, LineStartPhase, LineSample5, LineEndPhase,
      LineEndTrial>>

Follow(scenario, k, line) ==
    IF k >= 0 /\ k < Len(scenario) /\ line = scenario[k + 1] THEN k + 1
    ELSE -1

\* the contexts (eye mode, fastnumbers or not) in which sample() returns a
\* record for the token list
DecodesAs(l) ==
    {c \in EyeModes \X BOOLEAN : sample(l, c[1], c[2]).ok}

\* DecodesAs on each line, computed once
Decodable == [line \in AllLines |-> DecodesAs(Tokens[line].l)]

\* the hooks called by parse_file up to its loop (line 72)
calls_open_file == <<"on_start_file">>

\* the hooks called by one turn of the loop of parse_file that left the
\* instance as q: on_start_trial by parse_trial before its loop (line 92)
calls_file_line(q) ==
    IF q.pc = "trial" THEN <<"on_start_trial">> ELSE <<>>

\* calls_trial_line with parse_line called on the end_trial line as well
calls_trial_line_always(q) ==
    IF q.pc = "raised" THEN <<>>
    ELSE IF q.pc = "file" THEN <<"parse_line", "on_end_trial">>
    ELSE <<"parse_line">>

\* the hooks called by one turn of the loop of parse_trial that left the
\* instance as q: parse_line after parse_variable and parse_phase returned
\* (line 99), on_end_trial after the break (line 100)
calls_trial_line(q) ==
    IF q.pc = "raised" THEN <<>>
    ELSE IF q.pc = "file" THEN <<"on_end_trial">>
    ELSE <<"parse_line">>

\* the hooks called when the file ends: on_end_trial if parse_trial was
\* reading (line 100), then on_end_file (line 83)
calls_end_of_file(p) ==
    IF p.pc = "trial" THEN <<"on_end_trial", "on_end_file">>
    ELSE <<"on_end_file">>

\* where a sequence of hook calls stands: "start" before any call, "file"
\* after on_start_file or on_end_trial, "trial" after on_start_trial,
\* "end" after on_end_file, "bad" once a call came out of place;
\* end_trial_line tells that the line being handled is an end_trial marker
Nest(at, call, end_trial_line) ==
    CASE call = "on_start_file" -> IF at = "start" THEN "file" ELSE "bad"
      [] call = "on_start_trial" -> IF at = "file" THEN "trial" ELSE "bad"
      [] call = "parse_line" ->
            IF at = "trial" /\ ~end_trial_line THEN "trial" ELSE "bad"
      [] call = "on_end_trial" -> IF at = "trial" THEN "file" ELSE "bad"
      [] call = "on_end_file" -> IF at = "file" THEN "end" ELSE "bad"

RECURSIVE NestAll(_, _, _)
NestAll(at, calls, end_trial_line) ==
    IF calls = <<>> THEN at
    ELSE NestAll(Nest(at, Head(calls), end_trial_line), Tail(calls),
                 end_trial_line)

ObsInit ==
    [last |-> "init", prePhase |-> Unset, accepted |-> <<>>,
     opened |-> <<>>, closed |-> 0, scen4 |-> -1, scen5 |-> -1,
     openid |-> Unset, flushed |-> {},
     reused |-> FALSE, decoded |-> {}, hooks |-> "start"]

ObsOpen(o) ==
    [o EXCEPT !.last = "open_file", !.closed = 0, !.scen4 = 0, !.scen5 = 0,
              !.hooks = NestAll("start", calls_open_file, FALSE)]

\* p read the line and became q
ObsLine(o, p, q, line) ==
    LET k == Kind(p, line)
        l == Tokens[line].l
    IN
    [o EXCEPT
        !.last = k,
        !.prePhase = p.current_phase,
        !.accepted = IF k \in {"start_phase", "start_trial"} THEN <<>>
                     ELSE IF k = "sample"
                     THEN Append(o.accepted, to_sample(l))
                     ELSE o.accepted,
        !.opened = IF k = "start_trial"
                   THEN Append(o.opened, <<p.entry, p.lineno + 1>>)
                   ELSE o.opened,
        !.closed = IF k \in {"end_trial", "end_trial_in_phase"}
                   THEN o.closed + 1 ELSE o.closed,
        !.scen4 = Follow(Scenario4, o.scen4, line),
        !.scen5 = Follow(Scenario5, o.scen5, line),
        !.openid = IF k = "start_trial" THEN l[4] ELSE o.openid,
        !.flushed = IF k = "start_trial" THEN {}
                    ELSE IF k = "end_phase" /\ IsString(p.current_phase)
                    THEN o.flushed \cup {p.current_phase.s}
                    ELSE o.flushed,
        !.reused = k = "start_phase" /\ IsString(l[4])
                      /\ l[4].s \in o.flushed,
        !.decoded = IF PhaseOpen(p) /\ k \in {"sample", "ignored"}
                    THEN Decodable[line] ELSE {},
        !.hooks = NestAll(o.hooks,
                          IF p.pc = "file" THEN calls_file_line(q)
                          ELSE calls_trial_line(q),
                          k \in {"end_trial", "end_trial_in_phase"})]

ObsEOF(o, p) ==
    [o EXCEPT !.last = IF p.pc = "trial" THEN "eof_in_trial" ELSE "eof",
              !.prePhase = p.current_phase,
              !.reused = FALSE,
              !.decoded = {},
              !.hooks = NestAll(o.hooks, calls_end_of_file(p), FALSE)]

-----------------------------------------------------------------------------
(* The corpus run: EyeLinkParser.__init__ *)

Init ==
    /\ raw = <<>>
    /\ toks = NoTokens
    /\ ev = NoEvent
    /\ self = Fresh
    /\ ref = Fresh
    /\ dm = <<>>
    /\ listing \in Listings
    /\ idx = 0
    /\ nread = 0
    /\ obs = ObsInit
    /\ alphabet \in Alphabets

\* line 34-35: an entry without the extension is passed over
SkipEntry ==
    /\ self.pc = "idle"
    /\ idx < Len(listing)
    /\ ~EndsWith(listing[idx + 1], EXT)
    /\ idx' = idx + 1
    /\ obs' = [obs EXCEPT !.last = "skip"]
    /\ UNCHANGED <<raw, toks, ev, self, ref, dm, listing, nread, alphabet>>

\* lines 36-37, 70-75: parse_file is entered
StartFile ==
    /\ self.pc = "idle"
    /\ idx < Len(listing)
    /\ EndsWith(listing[idx + 1], EXT)
    /\ self' = open_file(self, PathOf(listing[idx + 1]), idx + 1)
    /\ ref' = open_file(Fresh, PathOf(listing[idx + 1]), idx + 1)
    /\ obs' = ObsOpen(obs)
    /\ UNCHANGED <<raw, toks, ev, dm, listing, idx, nread, alphabet>>

\* lines 77-82: a line is read outside any trial
ReadLineInFile ==
    /\ self.pc = "file"
    /\ nread < MaxLines
    /\ \E line \in alphabet :
          /\ self' = file_line(self, line)
          /\ ref' = Feed(ref, line)
          /\ obs' = ObsLine(obs, self, self', line)
    /\ nread' = nread + 1
    /\ UNCHANGED <<raw, toks, ev, dm, listing, idx, alphabet>>

\* lines 93-99: a line is read inside a trial
ReadLineInTrial ==
    /\ self.pc = "trial"
    /\ nread < MaxLines
    /\ \E line \in alphabet :
          /\ self' = trial_line(self, line)
          /\ ref' = Feed(ref, line)
          /\ obs' = ObsLine(obs, self, self', line)
    /\ nread' = nread + 1
    /\ UNCHANGED <<raw, toks, ev, dm, listing, idx, alphabet>>

\* the file ends: parse_file returns and __init__ appends its table
\* (line 37)
EndOfFile ==
    /\ self.pc \in {"file", "trial"}
    /\ self' = end_of_file(self)
    /\ ref' = FeedEOF(ref)
    /\ dm' = Concat(dm, self'.filedm)
    /\ idx' = idx + 1
    /\ obs' = ObsEOF(obs, self)
    /\ UNCHANGED <<raw, toks, ev, listing, nread, alphabet>>

Next ==
    \/ SkipEntry
    \/ StartFile
    \/ ReadLineInFile
    \/ ReadLineInTrial
    \/ EndOfFile

Spec == Init /\ [][Next]_vars

-----------------------------------------------------------------------------
(* The tokenizer run: split applied to one raw line *)

SplitChars == {"a", "1", ".", "-", " ", "\n", "'", "\"", "\\"}

RawLines == UNION {[1..n -> SplitChars] : n \in 0..MaxRawLen}

InitSplit ==
    /\ raw \in RawLines
    /\ toks = NoTokens
    /\ ev = NoEvent
    /\ self = Fresh
    /\ ref = Fresh
    /\ dm = <<>>
    /\ listing = <<>>
    /\ idx = 0
    /\ nread = 0
    /\ obs = ObsInit
    /\ alphabet = {}

\* l = self.split(line)
CallSplit ==
    /\ ~toks.done
    /\ toks' = [done |-> TRUE, exc |-> split(raw).exc, l |-> split(raw).l]
    /\ UNCHANGED <<raw, ev, self, ref, dm, listing, idx, nread, obs,
                 alphabet>>

NextSplit == CallSplit

SpecSplit == InitSplit /\ [][NextSplit]_vars

-----------------------------------------------------------------------------
(* The decoder run: sample applied to one token list *)

TimeToks == {IntTok(4815155), IntTok(0), StrTok(MSG)}
CoordToks == {StrTok(DOT), IntTok(0), FloatTok(1682, 1)}
PupilToks == {StrTok(DOT), IntTok(0), FloatTok(0, 0), FloatTok(2141, 0)}
EyeToks == {<<x, y, p>> : x \in CoordToks, y \in CoordToks, p \in PupilToks}

\* token lists of 4, 5, 6, 8 and 9 tokens: a time, one or two eyes, and
\* the trailing fields of the instrument
EventLines ==
    {<<t>> \o a : t \in TimeToks, a \in EyeToks}
    \cup {<<t>> \o a \o <<StrTok(DOTS)>> : t \in TimeToks, a \in EyeToks}
    \cup {<<t>> \o a \o <<FloatTok(32768, 0), StrTok(DOTS)>> :
            t \in TimeToks, a \in EyeToks}
    \cup {<<t>> \o a \o b \o <<StrTok(DOTS)>> :
            t \in TimeToks, a \in EyeToks, b \in EyeToks}
    \cup {<<t>> \o a \o b \o <<StrTok(DOTS), StrTok(DOTS)>> :
            t \in TimeToks, a \in EyeToks, b \in EyeToks}

InitEvents ==
    /\ raw = <<>>
    /\ toks = NoTokens
    /\ ev \in {[l |-> l, eyes |-> m, fast |-> f, done |-> FALSE,
                rec |-> NoRecord] :
                 l \in EventLines, m \in EyeModes, f \in BOOLEAN}
    /\ self = Fresh
    /\ ref = Fresh
    /\ dm = <<>>
    /\ listing = <<>>
    /\ idx = 0
    /\ nread = 0
    /\ obs = ObsInit
    /\ alphabet = {}

\* sample(l, eyes_recorded)
DecodeSample ==
    /\ ~ev.done
    /\ ev' = [ev EXCEPT !.done = TRUE,
                        !.rec = sample(ev.l, ev.eyes, ev.fast)]
    /\ UNCHANGED <<raw, toks, self, ref, dm, listing, idx, nread, obs,
                 alphabet>>

NextEvents == DecodeSample

SpecEvents == InitEvents /\ [][NextEvents]_vars

-----------------------------------------------------------------------------
(* _events.py: Blink, Fixation and Saccade; eyelinkparser.py: to_saccade   *)
(* and to_fixation.  Arithmetic on number tokens is exact: a number is     *)
(* n / 10^e, the result is an int when both operands are, a float          *)
(* otherwise.  np.sqrt(v) is the token of type "sqrt" holding v.           *)

EBLINK == <<"E", "B", "L", "I", "N", "K">>
EFIX == <<"E", "F", "I", "X">>
ESACC == <<"E", "S", "A", "C", "C">>

Max(a, b) == IF a >= b THEN a ELSE b

\* the numerator of a over the denominator 10^e, for e >= a.e
Scaled(a, e) == a.n * Pow10(e - a.e)

NumTok(a, b, n, e) ==
    IF a.t = "int" /\ b.t = "int" THEN IntTok(n) ELSE Norm(n, e)

\* a - b taking b - a instead
SubReversed(a, b) ==
    LET e == Max(a.e, b.e) IN NumTok(a, b, Scaled(b, e) - Scaled(a, e), e)

\* a - b on two numbers
Sub(a, b) ==
    LET e == Max(a.e, b.e) IN NumTok(a, b, Scaled(a, e) - Scaled(b, e), e)

\* a + b on two numbers
Add(a, b) ==
    LET e == Max(a.e, b.e) IN NumTok(a, b, Scaled(a, e) + Scaled(b, e), e)

\* a ** 2 on a number
Square(a) == NumTok(a, a, a.n * a.n, a.e + a.e)

\* np.sqrt(a) on a number that is not negative
Sqrt(a) == [Norm(a.n, a.e) EXCEPT !.t = "sqrt"]

\* np.sqrt((sx-ex)**2 + (sy-ey)**2)
Amplitude(sx, sy, ex, ey) ==
    Sqrt(Add(Square(Sub(sx, ex)), Square(Sub(sy, ey))))

\* the attributes of a Blink, Fixation or Saccade object and the keys of
\* the dictionaries of to_saccade and to_fixation; an attribute or key the
\* record does not have is Unset.  ok: an object or dictionary was
\* returned; exc: the exception that left the call; warned: event() issued
\* its warning.
NoDecoded ==
    [ok |-> FALSE, exc |-> "", warned |-> FALSE, eye |-> Unset,
     st |-> Unset, et |-> Unset, duration |-> Unset, x |-> Unset,
     y |-> Unset, pupil_size |-> Unset, sx |-> Unset, sy |-> Unset,
     ex |-> Unset, ey |-> Unset, size |-> Unset, sTime |-> Unset,
     eTime |-> Unset, pupilSize |-> Unset]

\* Blink.match
BlinkMatch(l) == Len(l) = 5 /\ PyEq(l[1], StrTok(EBLINK))

\* Blink.__init__: the duration is the token l[4]
Blink_init(l, fast) ==
    IF ~assert_numeric(l, 2..4, fast)
    THEN [NoDecoded EXCEPT !.exc = "TypeError"]
    ELSE [NoDecoded EXCEPT !.ok = TRUE, !.eye = l[2], !.st = l[3],
                           !.et = l[4], !.duration = l[5]]

\* Fixation.match
FixationMatch(l) == Len(l) = 8 /\ PyEq(l[1], StrTok(EFIX))

\* Fixation.__init__: self.et - self.st is a TypeError when one of the two
\* is a text (a text that reads as a number passes fastnumbers.isreal)
Fixation_init(l, fast) ==
    IF ~assert_numeric(l, 2..7, fast)
    THEN [NoDecoded EXCEPT !.exc = "TypeError"]
    ELSE IF ~(IsNumber(l[3]) /\ IsNumber(l[4]))
    THEN [NoDecoded EXCEPT !.exc = "TypeError"]
    ELSE [NoDecoded EXCEPT !.ok = TRUE, !.eye = l[2], !.x = l[6],
                           !.y = l[7], !.pupil_size = l[8], !.st = l[3],
                           !.et = l[4], !.duration = Sub(l[4], l[3])]

\* Saccade.match
SaccadeMatch(l) == Len(l) \in {11, 15} /\ PyEq(l[1], StrTok(ESACC))

\* the 0-based indices of sx, sy, ex, ey (lines 186-197)
SaccadePoints(l) == IF Len(l) = 11 THEN <<5, 6, 7, 8>> ELSE <<9, 10, 11, 12>>

\* Saccade.__init__
Saccade_init(l, fast) ==
    LET at == SaccadePoints(l)
        sx == l[at[1] + 1]
        sy == l[at[2] + 1]
        ex == l[at[3] + 1]
        ey == l[at[4] + 1]
    IN  IF ~assert_numeric(l, {2, 3, at[1], at[2], at[3], at[4]}, fast)
        THEN [NoDecoded EXCEPT !.exc = "TypeError"]
        ELSE IF \E a \in {sx, sy, ex, ey, l[3], l[4]} : ~IsNumber(a)
        THEN [NoDecoded EXCEPT !.exc = "TypeError"]
        ELSE [NoDecoded EXCEPT !.ok = TRUE, !.sx = sx, !.sy = sy,
                               !.ex = ex, !.ey = ey,
                               !.size = Amplitude(sx, sy, ex, ey),
                               !.eye = l[2], !.st = l[3], !.et = l[4],
                               !.duration = Sub(l[4], l[3])]

\* event(l, Blink): None unless the line matches; a TypeError is passed
\* over, any other exception is warned about, and both leave None
blink(l, fast) ==
    IF ~BlinkMatch(l) THEN NoDecoded
    ELSE LET r == Blink_init(l, fast) IN
         IF r.exc = "" THEN r
         ELSE [NoDecoded EXCEPT !.warned = (r.exc # "TypeError")]

\* event(l, Fixation)
fixation(l, fast) ==
    IF ~FixationMatch(l) THEN NoDecoded
    ELSE LET r == Fixation_init(l, fast) IN
         IF r.exc = "" THEN r
         ELSE [NoDecoded EXCEPT !.warned = (r.exc # "TypeError")]

\* event(l, Saccade)
saccade(l, fast) ==
    IF ~SaccadeMatch(l) THEN NoDecoded
    ELSE LET r == Saccade_init(l, fast) IN
         IF r.exc = "" THEN r
         ELSE [NoDecoded EXCEPT !.warned = (r.exc # "TypeError")]

\* EyeLinkParser.to_saccade: None unless the line has 11 tokens or more and
\* starts with ESACC; whatever is raised inside the try block leaves None
to_saccade(l) ==
    IF Len(l) < 11 \/ ~PyEq(l[1], StrTok(ESACC)) THEN NoDecoded
    ELSE LET at == IF Len(l) = 15 THEN <<9, 10, 11, 12>>
                   ELSE <<5, 6, 7, 8>>
             sx == l[at[1] + 1]
             sy == l[at[2] + 1]
             ex == l[at[3] + 1]
             ey == l[at[4] + 1]
         IN  IF \E a \in {sx, sy, ex, ey, l[3], l[4]} : ~IsNumber(a)
             THEN NoDecoded
             ELSE [NoDecoded EXCEPT !.ok = TRUE, !.sx = sx, !.sy = sy,
                                    !.ex = ex, !.ey = ey,
                                    !.size = Amplitude(sx, sy, ex, ey),
                                    !.sTime = l[3], !.eTime = l[4],
                                    !.duration = Sub(l[4], l[3])]

\* EyeLinkParser.to_fixation: None unless the line has 8 tokens and starts
\* with EFIX; the subtraction is not guarded, its TypeError leaves the call
to_fixation(l) ==
    IF Len(l) # 8 \/ ~PyEq(l[1], StrTok(EFIX)) THEN NoDecoded
    ELSE IF ~(IsNumber(l[3]) /\ IsNumber(l[4]))
    THEN [NoDecoded EXCEPT !.exc = "TypeError"]
    ELSE [NoDecoded EXCEPT !.ok = TRUE, !.x = l[6], !.y = l[7],
                           !.pupilSize = l[8], !.sTime = l[3],
                           !.eTime = l[4], !.duration = Sub(l[4], l[3])]

-----------------------------------------------------------------------------
(* The record run: one of blink, fixation, saccade, to_saccade and         *)
(* to_fixation applied to one token list                                   *)

EYE_R == <<"R">>

\* start and end times: those of the documented lines, zero, a negative
\* number, and the placeholder
StToks == {IntTok(3216221), IntTok(0), StrTok(DOT)}
EtToks == {IntTok(3216233), FloatTok(-15, 1), StrTok(DOT)}
\* the duration token: the instrument writes et - st + 1
DurToks == {IntTok(13), IntTok(0), StrTok(DOT)}
PointToks == {FloatTok(515, 1), FloatTok(-16, 0), StrTok(DOT)}
SizeToks == {IntTok(4710), IntTok(0)}

Timing == {<<st, et, d>> : st \in StToks, et \in EtToks, d \in DurToks}
Points ==
    {<<sx, sy, ex, ey>> : sx \in PointToks, sy \in PointToks,
                          ex \in PointToks, ey \in {FloatTok(391, 1),
                                                    StrTok(DOT)}}

\* EBLINK R 5294685 5294774 90 and alike
BlinkLines == {<<StrTok(EBLINK), StrTok(EYE_R)>> \o t : t \in Timing}

\* EFIX R 1651574 1654007 2434 653.3 557.8 4710 and alike
FixationLines ==
    {<<StrTok(EFIX), StrTok(EYE_R)>> \o t \o <<x, FloatTok(558, 1), p>> :
        t \in Timing, x \in PointToks, p \in SizeToks}

\* ESACC R 3216221 3216233 13 515.2 381.6 531.2 390.7 0.51 58 and alike
SaccadeLines11 ==
    {<<StrTok(ESACC), StrTok(EYE_R)>> \o t \o pt
        \o <<FloatTok(51, 2), IntTok(58)>> : t \in Timing, pt \in Points}

\* a twelfth token after the eleven
SaccadeLines12 == {l \o <<StrTok(DOTS)>> : l \in SaccadeLines11}

\* the long layout: the points are the tokens 9 to 12
SaccadeLines15 ==
    {<<StrTok(ESACC), StrTok(EYE_R)>> \o t \o skipped \o pt
        \o <<FloatTok(51, 2), IntTok(58)>> :
        t \in Timing, pt \in Points,
        skipped \in {<<StrTok(DOT), StrTok(DOT), StrTok(DOT), StrTok(DOT)>>,
                     <<IntTok(1), IntTok(2), IntTok(3), IntTok(4)>>}}

RecordLines ==
    BlinkLines \cup FixationLines \cup SaccadeLines11 \cup SaccadeLines12
        \cup SaccadeLines15

InitRecords ==
    /\ raw = <<>>
    /\ toks = NoTokens
    /\ ev \in {[l |-> l, fast |-> f, call |-> "", done |-> FALSE,
                rec |-> NoDecoded] : l \in RecordLines, f \in BOOLEAN}
    /\ self = Fresh
    /\ ref = Fresh
    /\ dm = <<>>
    /\ listing = <<>>
    /\ idx = 0
    /\ nread = 0
    /\ obs = ObsInit
    /\ alphabet = {}

\* blink(l)
DecodeBlink ==
    /\ ~ev.done
    /\ ev' = [ev EXCEPT !.done = TRUE, !.call = "blink",
                        !.rec = blink(ev.l, ev.fast)]
    /\ UNCHANGED <<raw, toks, self, ref, dm, listing, idx, nread, obs,
                 alphabet>>

\* fixation(l)
DecodeFixation ==
    /\ ~ev.done
    /\ ev' = [ev EXCEPT !.done = TRUE, !.call = "fixation",
                        !.rec = fixation(ev.l, ev.fast)]
    /\ UNCHANGED <<raw, toks, self, ref, dm, listing, idx, nread, obs,
                 alphabet>>

\* saccade(l)
DecodeSaccade ==
    /\ ~ev.done
    /\ ev' = [ev EXCEPT !.done = TRUE, !.call = "saccade",
                        !.rec = saccade(ev.l, ev.fast)]
    /\ UNCHANGED <<raw, toks, self, ref, dm, listing, idx, nread, obs,
                 alphabet>>

\* self.to_saccade(l)
CallToSaccade ==
    /\ ~ev.done
    /\ ev' = [ev EXCEPT !.done = TRUE, !.call = "to_saccade",
                        !.rec = to_saccade(ev.l)]
    /\ UNCHANGED <<raw, toks, self, ref, dm, listing, idx, nread, obs,
                 alphabet>>

\* self.to_fixation(l)
CallToFixation ==
    /\ ~ev.done
    /\ ev' = [ev EXCEPT !.done = TRUE, !.call = "to_fixation",
                        !.rec = to_fixation(ev.l)]
    /\ UNCHANGED <<raw, toks, self, ref, dm, listing, idx, nread, obs,
                 alphabet>>

NextRecords ==
    \/ DecodeBlink
    \/ DecodeFixation
    \/ DecodeSaccade
    \/ CallToSaccade
    \/ CallToFixation

SpecRecords == InitRecords /\ [][NextRecords]_vars

-----------------------------------------------------------------------------
(* What the claims speak about *)

PupilOf(samples) == [i \in 1..Len(samples) |-> samples[i].pupil_size]
XOf(samples) == [i \in 1..Len(samples) |-> samples[i].x]
YOf(samples) == [i \in 1..Len(samples) |-> samples[i].y]

TraceCols == {PTRACE_ \o PROBE, XTRACE_ \o PROBE, YTRACE_ \o PROBE}

\* the row of the scenario: cond = "A" and the three traces of phase probe
ScenarioRow(row, ptrace, xtrace, ytrace) ==
    /\ DOMAIN row.cols = {COL_PATH, COL_TRIALID, COND} \cup TraceCols
    /\ row.cols[COND] = Scalar(StrTok(COND_A))
    /\ row.cols[PTRACE_ \o PROBE] = Series(ptrace)
    /\ row.cols[XTRACE_ \o PROBE] = Series(xtrace)
    /\ row.cols[YTRACE_ \o PROBE] = Series(ytrace)

FileDone == obs.last \in {"eof", "eof_in_trial"}

Origins(rows) == [i \in 1..Len(rows) |-> rows[i].origin]

Before(a, b) == a[1] < b[1] \/ (a[1] = b[1] /\ a[2] < b[2])

Ordered(rows) ==
    \A i, j \in 1..Len(rows) :
        i < j => Before(rows[i].origin, rows[j].origin)

\* the rows the run holds: those of the files done, those of the file
\* being parsed, and the row of the open trial
RowsSoFar ==
    dm \o (IF self.pc \in {"file", "trial"} THEN self.filedm ELSE <<>>)
       \o (IF self.pc = "trial" THEN <<self.trialdm>> ELSE <<>>)

CoordOk(a, out) == IF PyEq(a, StrTok(DOT)) THEN out = NaN ELSE out = a
PupilOk(a, out) ==
    IF PyEq(a, IntTok(0)) \/ PyEq(a, StrTok(DOT)) THEN out = NaN
    ELSE out = a

-----------------------------------------------------------------------------
(* The claims *)

\* C1, as the specification states it: the file of the six lines, its
\* sample line having four tokens, yields exactly one row with cond = "A",
\* ptrace_probe = [2141.0], xtrace_probe = [168.2], ytrace_probe = [406.5].
C1_ScenarioAsStated ==
    (obs.scen4 = 6 /\ obs.last = "eof") =>
        /\ Len(self.filedm) = 1
        /\ ScenarioRow(self.filedm[1], <<FloatTok(2141, 0)>>,
                       <<FloatTok(1682, 1)>>, <<FloatTok(4065, 1)>>)

\* C1, amended: the file of the six lines yields exactly one row with
\* cond = "A" and the three traces of probe empty, the four-token line
\* being no sample; with the sample line as the source documents it (a
\* fifth token "...") the row holds [2141.0], [168.2] and [406.5].
C1_Scenario ==
    /\ (obs.scen4 = 6 /\ obs.last = "eof") =>
          /\ Len(self.filedm) = 1
          /\ ScenarioRow(self.filedm[1], <<>>, <<>>, <<>>)
    /\ (obs.scen5 = 6 /\ obs.last = "eof") =>
          /\ Len(self.filedm) = 1
          /\ ScenarioRow(self.filedm[1], <<FloatTok(2141, 0)>>,
                         <<FloatTok(1682, 1)>>, <<FloatTok(4065, 1)>>)

C1_Witness == obs.scen4 = 6 /\ obs.last = "eof" /\ Len(self.filedm) = 1

\* C2: the three traces have the same length in every state; while a phase
\* is open they hold, in arrival order, the pupil size, x and y of the
\* samples accepted since it was opened; and when end_phase closes the
\* phase after K accepted samples, the three columns of the phase hold
\* exactly those K entries, entry i being of the i-th accepted sample.
C2_Traces ==
    /\ Len(self.ptrace) = Len(self.xtrace)
    /\ Len(self.xtrace) = Len(self.ytrace)
    /\ PhaseOpen(self) =>
          /\ self.ptrace = PupilOf(obs.accepted)
          /\ self.xtrace = XOf(obs.accepted)
          /\ self.ytrace = YOf(obs.accepted)
    /\ (obs.last = "end_phase" /\ self.pc = "trial") =>
          LET name == obs.prePhase.s
              cols == self.trialdm.cols
          IN  /\ {PTRACE_ \o name, XTRACE_ \o name, YTRACE_ \o name}
                    \subseteq DOMAIN cols
              /\ cols[PTRACE_ \o name] = Series(PupilOf(obs.accepted))
              /\ cols[XTRACE_ \o name] = Series(XOf(obs.accepted))
              /\ cols[YTRACE_ \o name] = Series(YOf(obs.accepted))
              /\ Len(cols[PTRACE_ \o name].series) = Len(obs.accepted)
              /\ Len(cols[XTRACE_ \o name].series) = Len(obs.accepted)
              /\ Len(cols[YTRACE_ \o name].series) = Len(obs.accepted)

C2_Witness ==
    /\ obs.last = "end_phase"
    /\ self.pc = "trial"
    /\ Len(obs.accepted) = 2
    /\ obs.accepted[1] # obs.accepted[2]

\* C3: the corpus run never aborts: no line, trial or file makes an
\* exception leave parse_file.
C3_CorpusRunCompletes == self.pc # "raised"

\* C4: split never fails: whatever the raw line, it returns a token
\* sequence and raises nothing.
C4_SplitNeverFails == toks.done => toks.exc = ""

\* C5: when a file has been parsed, its table holds one row per trial that
\* an end_trial marker closed, and none for a trial left open at the end
\* of the file.
C5_UnterminatedTrialDiscarded == FileDone => Len(self.filedm) = obs.closed

\* C6: an end_trial marker read while a phase is open is signaled: an
\* exception is raised.
C6_EndTrialInPhaseSignaled ==
    obs.last = "end_trial_in_phase" => self.pc = "raised"

\* C7: a start_phase marker read while a phase is open raises (the
\* assertion fails); the open phase stays the open phase and its traces
\* stay what was accumulated.
C7_NestedStartPhaseRejected ==
    obs.last = "nested_start_phase" =>
        /\ self.pc = "raised"
        /\ self.exc = "AssertionError"
        /\ self.current_phase = obs.prePhase
        /\ self.ptrace = PupilOf(obs.accepted)
        /\ self.xtrace = XOf(obs.accepted)
        /\ self.ytrace = YOf(obs.accepted)

C7_Witness == obs.last = "nested_start_phase" /\ Len(obs.accepted) >= 1

\* C8: the rows are those of the trials opened, in the order of their
\* start_trial markers: within a file by line, in the corpus table by
\* directory entry first; no row is duplicated or out of place.
C8_RowOrder ==
    /\ self.pc # "raised" => Origins(RowsSoFar) = obs.opened
    /\ Ordered(dm)
    /\ Ordered(self.filedm)

C8_Witness ==
    /\ Len(dm) = 3
    /\ dm[1].origin[1] = 1
    /\ dm[2].origin[1] = 2
    /\ dm[3].origin[1] = 2

\* C9: the instance that parsed other files before and a freshly
\* constructed instance, reading the same file, stand at the same place,
\* have raised the same exception or none, and hold the same file table
\* and trial count: nothing of an earlier file reaches the rows.
C9_FileIndependence ==
    /\ self.pc = ref.pc
    /\ self.exc = ref.exc
    /\ self.ntrial = ref.ntrial
    /\ self.filedm = ref.filedm
    /\ self.pc = "trial" => self.trialdm = ref.trialdm

C9_Witness ==
    /\ self.entry = 2
    /\ FileDone
    /\ Len(self.filedm) >= 1
    /\ self.ptrace # <<>>
    /\ ref.ptrace = <<>>

\* C10: in a decoded sample, for each eye mode left, right and both, a
\* coordinate whose token is "." and a pupil size whose token is "." or
\* zero are the not-a-number value, and every other field is its token.
C10_MissingIsNaN ==
    (ev.done /\ ev.rec.ok /\ ev.eyes \in {"left", "right", "both"}) =>
        LET l == ev.l
            r == ev.rec
        IN  /\ ev.eyes \in {"left", "both"} =>
                  /\ CoordOk(l[2], r.lx)
                  /\ CoordOk(l[3], r.ly)
                  /\ PupilOk(l[4], r.lpupil_size)
            /\ ev.eyes = "right" =>
                  /\ CoordOk(l[2], r.rx)
                  /\ CoordOk(l[3], r.ry)
                  /\ PupilOk(l[4], r.rpupil_size)
            /\ ev.eyes = "both" =>
                  /\ CoordOk(l[5], r.rx)
                  /\ CoordOk(l[6], r.ry)
                  /\ PupilOk(l[7], r.rpupil_size)

C10_Witness ==
    /\ ev.done
    /\ ev.rec.ok
    /\ ev.eyes = "both"
    /\ ev.l[2] = StrTok(DOT)
    /\ ev.l[7] = FloatTok(0, 0)
    /\ ev.rec.lx = NaN
    /\ ev.rec.rpupil_size = NaN

\* a + b = c on three numbers, by value
SumIs(a, b, c) ==
    a.n * Pow10(b.e + c.e) + b.n * Pow10(a.e + c.e) = c.n * Pow10(a.e + b.e)

\* v is the square root of (sx - ex)^2 + (sy - ey)^2, by value
IsDistance(v, sx, sy, ex, ey) ==
    LET e == Max(Max(sx.e, sy.e), Max(ex.e, ey.e))
        dx == Scaled(sx, e) - Scaled(ex, e)
        dy == Scaled(sy, e) - Scaled(ey, e)
    IN  /\ v.t = "sqrt"
        /\ v.n * Pow10(e + e) = (dx * dx + dy * dy) * Pow10(v.e)

RecordCalls == {"fixation", "saccade", "to_saccade", "to_fixation"}

\* C11: in every Fixation and Saccade record (and every dictionary of
\* to_fixation and to_saccade) the duration is a number that, added to the
\* start time (token 2), gives the end time (token 3), whatever the
\* duration token of the line; the start and end points of a saccade are
\* the tokens 5..8 of an 11-token line and 9..12 of a 15-token line, and
\* its size is the Euclidean distance between them.
C11_DurationAndSize ==
    (ev.done /\ ev.rec.ok /\ ev.call \in RecordCalls) =>
        LET l == ev.l
            r == ev.rec
            k == IF Len(l) = 15 THEN 10 ELSE 6
        IN  /\ IsNumber(r.duration)
            /\ SumIs(l[3], r.duration, l[4])
            /\ (ev.call \in {"saccade", "to_saccade"}
                    /\ Len(l) \in {11, 15}) =>
                  /\ <<r.sx, r.sy, r.ex, r.ey>> = SubSeq(l, k, k + 3)
                  /\ IsDistance(r.size, l[k], l[k + 1], l[k + 2], l[k + 3])

C11_Witness ==
    /\ ev.done
    /\ ev.rec.ok
    /\ ev.call = "saccade"
    /\ Len(ev.l) = 15
    /\ ev.l[6] = IntTok(1)
    /\ ev.l[5] = IntTok(13)
    /\ ev.rec.duration = IntTok(12)
    /\ ev.rec.sx # ev.rec.ex
    /\ ev.rec.sy # ev.rec.ey

\* C16: every decoded record with a duration, that of blink included, has
\* a duration that added to the start time gives the end time: for a line
\* EBLINK <eye> <st> <et> <d> the duration is et - st whatever d is.
C16_DurationIsEndMinusStart ==
    (ev.done /\ ev.rec.ok /\ ev.call \in RecordCalls \cup {"blink"}) =>
        LET dict == ev.call \in {"to_saccade", "to_fixation"}
            start == IF dict THEN ev.rec.sTime ELSE ev.rec.st
            end == IF dict THEN ev.rec.eTime ELSE ev.rec.et
        IN  /\ IsNumber(ev.rec.duration)
            /\ IsNumber(start)
            /\ IsNumber(end)
            /\ SumIs(start, ev.rec.duration, end)

\* the 0-based indices of the fields assert_numeric is called with
RequiredNumeric(l, call) ==
    IF call = "blink" THEN 2..4
    ELSE IF call = "fixation" THEN 2..7
    ELSE IF Len(l) = 11 THEN {2, 3, 5, 6, 7, 8}
    ELSE {2, 3, 9, 10, 11, 12}

\* C17: blink, fixation and saccade return a record only if every field
\* required to be numeric is a number greater than zero, and raise nothing
\* otherwise, with fastnumbers and without.
C17_NumericAndPositive ==
    (ev.done /\ ev.call \in {"blink", "fixation", "saccade"}) =>
        /\ ev.rec.exc = ""
        /\ ev.rec.ok =>
              \A i \in RequiredNumeric(ev.l, ev.call) :
                  IsNumber(ev.l[i + 1]) /\ ev.l[i + 1].n > 0

TracesOf(name) == {PTRACE_ \o name, XTRACE_ \o name, YTRACE_ \o name}

\* the columns of the row: those parse_trial sets, the variable of the
\* lines of the model, and the traces of the phases closed in the trial
OnlyClosedPhases(row) ==
    \A c \in DOMAIN row.cols :
        \/ c \in {COL_PATH, COL_TRIALID, COND}
        \/ \E name \in obs.flushed : c \in TracesOf(name)

TrialJustClosed ==
    /\ obs.last \in {"end_trial", "end_trial_in_phase", "eof_in_trial"}
    /\ self.pc # "raised"

C13_ReusedNameRejected ==
    obs.reused => (self.pc = "raised" /\ self.exc = "AssertionError")

\* C14: an end_phase marker naming the open phase stores the three traces
\* in the columns of that name and leaves no phase open; any other
\* end_phase marker, with or without a phase open, fails the assertion,
\* writes no trace column and leaves the open phase and its traces as
\* they were.
C14_EndPhaseOnlyOnMatch ==
    /\ (obs.last = "end_phase" /\ self.pc = "trial") =>
          /\ self.current_phase = None
          /\ TracesOf(obs.prePhase.s) \subseteq DOMAIN self.trialdm.cols
    /\ obs.last = "bad_end_phase" =>
          /\ self.pc = "raised"
          /\ self.exc = "AssertionError"
          /\ self.current_phase = obs.prePhase
          /\ OnlyClosedPhases(self.trialdm)
          /\ PhaseOpen(self) => self.ptrace = PupilOf(obs.accepted)

C14_Witness ==
    /\ obs.last = "bad_end_phase"
    /\ obs.prePhase = StrTok(PROBE)
    /\ Len(obs.accepted) >= 1
    /\ self.pc = "raised"

\* C15: while a phase is open, a line that is no marker adds an entry to
\* the traces exactly when sample() decodes it (in some context).
C15_AppendIffDecodes ==
    (obs.last \in {"sample", "ignored"} /\ obs.prePhase \notin {None, Unset})
        => ((obs.last = "sample") <=> (obs.decoded # {}))

\* C18: in the row of the open trial, trialid is the identifier of the
\* start_trial marker that opened it and path is the path of the file,
\* whatever lines were read since.
C18_IdAndPathKept ==
    self.pc = "trial" =>
        /\ self.trialdm.cols[COL_TRIALID] = Scalar(obs.openid)
        /\ self.trialdm.cols[COL_PATH] = Scalar(self.path)

\* the start_trial markers of the current file read while no trial was open
OpenedHere == {i \in 1..Len(obs.opened) : obs.opened[i][1] = self.entry}

\* C19: a start_trial marker read inside a trial opens no row, leaves the
\* identifier of the trial, the open phase and its traces as they were;
\* the trial count and the number of rows of the file equal the number of
\* start_trial markers read while no trial was open.
C19_StartTrialInsideTrialIgnored ==
    /\ obs.last = "start_trial_in_trial" =>
          /\ self.pc = "trial"
          /\ self.trialid = obs.openid
          /\ self.current_phase = obs.prePhase
          /\ PhaseOpen(self) =>
                /\ self.ptrace = PupilOf(obs.accepted)
                /\ self.xtrace = XOf(obs.accepted)
                /\ self.ytrace = YOf(obs.accepted)
          /\ Len(RowsSoFar) = Len(obs.opened)
    /\ (self.pc \in {"file", "trial"} \/ FileDone) =>
          /\ self.ntrial = Cardinality(OpenedHere)
          /\ Len(self.filedm) + (IF self.pc = "trial" THEN 1 ELSE 0)
                = Cardinality(OpenedHere)

C19_Witness ==
    /\ obs.last = "start_trial_in_trial"
    /\ PhaseOpen(self)
    /\ Len(obs.accepted) >= 1
    /\ self.ntrial = 2

\* C20: in a run of parse_file that raises nothing the hooks are called
\* well nested: on_start_file first and once; on_start_trial once per
\* trial, then parse_line for the lines of the trial other than its
\* end_trial line, then on_end_trial once, also when the file ends inside
\* the trial; on_end_file once, after the last on_end_trial.
C20_HooksWellNested ==
    self.pc # "raised" =>
        /\ obs.hooks # "bad"
        /\ self.pc = "file" => obs.hooks = "file"
        /\ self.pc = "trial" => obs.hooks = "trial"
        /\ FileDone => obs.hooks = "end"

C20_Witness ==
    /\ obs.last = "eof_in_trial"
    /\ obs.hooks = "end"
    /\ Len(self.filedm) = 2
    /\ obs.closed = 1

=============================================================================
